---- MODULE Spec2Model ----
(***************************************************************************)
(* The streaming audio engine of the repository: the text-to-speech player *)
(* of MessageBubble (src/unnamed/part_000, lines 16-169), the live duplex   *)
(* session of LiveVoiceModal (src/unnamed/part_000, lines 571-749) and the *)
(* sample codec the session uses (encodeAudio, decodeAudioData, lines      *)
(* 584-612).                                                               *)
(*                                                                         *)
(* Time is the output device's clock (AudioContext.currentTime), counted   *)
(* in ticks of one tenth of a second.  A fragment's duration is its sample *)
(* count divided by the sample rate, here a positive number of ticks.      *)
(*                                                                         *)
(* The two components share no state (every ref and every piece of React   *)
(* state belongs to one component instance), so a behaviour follows one    *)
(* component instance: `component` is chosen in Init and never changes.    *)
(* The codec is a pair of pure functions; CodecSpec applies them to every  *)
(* frame of a bounded set.  SchedSpec runs the two schedulers side by      *)
(* side on the same fragments.  ServiceSpec follows one call of            *)
(* generateStreamResponse or of streamSpeech (src/services/                *)
(* geminiService.tsx, lines 38-192) over every bounded remote stream.      *)
(***************************************************************************)
EXTENDS Integers, Sequences, FiniteSets, TLC

\* ------------------------------------------------------------------ bounds
\* The device clocks run up to MaxTime ticks.  A component handles at most
\* MaxEvents events: for MessageBubble the playbacks it starts and the
\* fragments it schedules, for LiveVoiceModal its connects, the fragments it
\* plays, the frames it captures and the timers it has pending, taken together.
MaxTime == 2
MaxEvents == 4
\* Fragment durations, in ticks.
Durations == {1, 2}
\* What a chunk or message decodes to: a buffer of some duration, or (0)
\* nothing that can be played.
Chunks == {0} \cup Durations
\* The handleSpeak invocations that are followed: a stream that outlives the
\* stop of its playback, and the playback started after it.
RunIds == {1, 2}
\* The connect invocations that are followed: a session and the session
\* that replaces it.
ConnIds == {1, 2}
\* The frames handed to the codec hold at most MaxSamples samples.
MaxSamples == 3
\* A remote stream yields at most MaxChunks chunks.
MaxChunks == 2

\* ------------------------------------------------------- program constants
\* part_000:115  currentTime >= nextStartTimeRef.current - 0.5   (0.5 s = 5 ticks)
DrainTolerance == 5

VARIABLES
    component,        \* what is followed: "MessageBubble", "LiveVoiceModal",
                      \* "SampleCodec", "PlaybackScheduler",
                      \* "generateStreamResponse" or "streamSpeech"
    \* ---- the sample codec
    codecPc,          \* "idle", "input", "encoded", "decoded"
    inputData,        \* the Float32Array handed to encodeAudio
    base64Data,       \* what encodeAudio returned
    float32Data,      \* what decodeAudioData returned for it
    \* ---- MessageBubble (text-to-speech player)
    now,              \* audioContextRef.current.currentTime
    audioContext,     \* audioContextRef.current: "null", "running", "closed"
    isSpeaking,       \* React state isSpeaking
    isLoadingAudio,   \* React state isLoadingAudio
    nextStartTime,    \* nextStartTimeRef.current
    sources,          \* sourcesRef.current: the pending AudioBufferSourceNodes
    nodes,            \* every AudioBufferSourceNode created so far
    runs,             \* the invocations of handleSpeak that reached streamSpeech
    mounted,          \* the component is mounted (its cleanup has not run)
    lastNode,         \* the node scheduled last since the cursor was last reset
    \* ---- LiveVoiceModal (live duplex session)
    apiKey,           \* process.env.API_KEY is set
    isOpen,           \* the isOpen prop
    status,           \* React state status
    isMuted,          \* React state isMuted
    mountedRef,       \* mountedRef.current
    liveAudioContext, \* audioContextRef.current: "null", "running", "closed"
    liveNow,          \* audioContextRef.current.currentTime
    liveNextStartTime,\* nextStartTimeRef.current
    liveNodes,        \* the buffer sources started by onmessage
    conns,            \* the invocations of connect
    modalMounted,     \* the modal is mounted (it has not been unmounted)
    mediaStreamRef,   \* mediaStreamRef.current: the connect whose stream it holds, 0 for null
    processorRef,     \* processorRef.current and sourceRef.current, likewise
    volumeLevel,      \* React state volumeLevel, in hundredths
    timers,           \* the pending setTimeout(() => setVolumeLevel(0), 200)
    frames,           \* the audioprocess events handled so far
    sent,             \* the chunks handed to session.sendRealtimeInput so far
    \* ---- geminiService (generateStreamResponse, streamSpeech)
    svcPc,            \* "idle"; "streaming": iterating over the stream;
                      \* "completed": returned after the loop; "caught":
                      \* returned from the catch block
    remote,           \* the chunks the remote stream yields unless it fails
    pos,              \* how many of them the for-await loop has taken
    fullText,         \* generateStreamResponse's fullText
    groundingSources, \* its groundingSources, in insertion order
    calls,            \* the arguments of the callback's invocations so far
    result            \* what the function returned

ttsVars == <<now, audioContext, isSpeaking, isLoadingAudio, nextStartTime,
             sources, nodes, runs, mounted, lastNode>>
liveVars == <<apiKey, isOpen, status, isMuted, mountedRef, liveAudioContext, liveNow,
              liveNextStartTime, liveNodes, conns, modalMounted, mediaStreamRef,
              processorRef, volumeLevel, timers, frames, sent>>
codecVars == <<codecPc, inputData, base64Data, float32Data>>
svcVars == <<svcPc, remote, pos, fullText, groundingSources, calls, result>>
vars == <<component, codecVars, svcVars, ttsVars, liveVars>>

Max(a, b) == IF a >= b THEN a ELSE b

\* ===================================================== MessageBubble ======

\* An AudioBufferSourceNode: its scheduled start, its buffer's duration, its
\* playback state and which onended handler it carries ("remove":
\* part_000:158-161, "drain": part_000:114-118).
Node(begin, dur) ==
    [begin |-> begin, dur |-> dur,
     state |-> "scheduled", onended |-> "remove"]

NodeEnd(n) == n.begin + n.dur

startTimeIgnoringCursor(currentTime, nextStart) == currentTime

\* part_000:152   const startTime = Math.max(ctx.currentTime, nextStartTimeRef.current)
startTime(currentTime, nextStart) == Max(currentTime, nextStart)

\* part_000:159-160   indexOf(source) then splice(index, 1)
Splice(seq, x) == SelectSeq(seq, LAMBDA y : y # x)

\* part_000:52-54   sourcesRef.current.forEach(source => { try { source.stop() } catch {} })
\* stop() halts a node that is scheduled or playing; on a node that has
\* already finished it does nothing, and whatever it throws is swallowed.
StopAll(ns, pending) ==
    [i \in DOMAIN ns |->
        IF (\E k \in DOMAIN pending : pending[k] = i) /\ ns[i].state = "scheduled"
        THEN [ns[i] EXCEPT !.state = "halted"]
        ELSE ns[i]]

stopAudioFirstOnly(s) ==
    IF s.sources = <<>> THEN [s EXCEPT !.isSpeaking = FALSE, !.nextStartTime = 0]
    ELSE [s EXCEPT !.nodes = StopAll(s.nodes, <<Head(s.sources)>>),
                   !.sources = Tail(s.sources),
                   !.isSpeaking = FALSE,
                   !.nextStartTime = 0]

stopAudioKeepingCursor(s) ==
    [s EXCEPT !.nodes = StopAll(s.nodes, s.sources),
              !.sources = <<>>,
              !.isSpeaking = FALSE]

\* part_000:51-58   stopAudio, as a function of the player's state
stopAudio(s) ==
    [s EXCEPT !.nodes = StopAll(s.nodes, s.sources),
              !.sources = <<>>,
              !.isSpeaking = FALSE,
              !.nextStartTime = 0]

Player == [nodes |-> nodes, sources |-> sources,
           isSpeaking |-> isSpeaking, nextStartTime |-> nextStartTime]

StopAudioStep ==
    LET s == stopAudio(Player) IN
    /\ nodes' = s.nodes
    /\ sources' = s.sources
    /\ isSpeaking' = s.isSpeaking
    /\ nextStartTime' = s.nextStartTime
    /\ lastNode' = 0

\* A handleSpeak invocation suspended in `await streamSpeech(...)`, with the
\* locals its callback closes over (part_000:101-102).
Run == [pc |-> "streaming", isFirstChunk |-> TRUE, activeSource |-> 0]

\* The invocation after it returned: its locals are gone.
Returned == [pc |-> "done", isFirstChunk |-> FALSE, activeSource |-> 0]

\* part_000:114  activeSource.onended = () => {...} replaces the handler set
\* at part_000:158.  On a node whose ended event has already been dispatched
\* (it played out or was stopped) the assignment has no effect any more.
SetOnEnded(ns, a) ==
    IF ns[a].state = "scheduled" THEN [ns EXCEPT ![a].onended = "drain"] ELSE ns

\* What the player has handled, against MaxEvents.
BubbleLoad == Len(runs) + Len(nodes)

\* part_000:61-64   handleSpeak while isSpeaking: stopAudio() and return.
\* The button is disabled while isLoadingAudio (part_000:210).
ClickStop ==
    /\ component = "MessageBubble" /\ mounted
    /\ ~isLoadingAudio /\ isSpeaking
    /\ StopAudioStep
    /\ UNCHANGED <<component, svcVars, codecVars, liveVars, now, audioContext, isLoadingAudio, runs, mounted>>

\* part_000:66-87   handleSpeak on a message whose cleaned text is empty:
\* both flags are set and cleared again before the handler returns.
ClickSpeakEmpty ==
    /\ component = "MessageBubble" /\ mounted
    /\ ~isLoadingAudio /\ ~isSpeaking
    /\ isLoadingAudio' = FALSE
    /\ isSpeaking' = FALSE
    /\ UNCHANGED <<component, svcVars, codecVars, liveVars, now, audioContext, nextStartTime, sources, nodes, runs,
                   mounted, lastNode>>

\* part_000:66-110  handleSpeak up to the await of streamSpeech: the flags
\* are raised, the AudioContext is created on first use, the cursor is set
\* to the device's current time and the stream is requested.
ClickSpeak ==
    /\ component = "MessageBubble" /\ mounted
    /\ ~isLoadingAudio /\ ~isSpeaking
    /\ Len(runs) < Cardinality(RunIds) /\ BubbleLoad < MaxEvents
    /\ isLoadingAudio' = TRUE
    /\ isSpeaking' = TRUE
    /\ audioContext' = "running"
    /\ nextStartTime' = now
    /\ runs' = Append(runs, Run)
    /\ lastNode' = 0
    /\ UNCHANGED <<component, svcVars, codecVars, liveVars, now, sources, nodes, mounted>>

scheduleChunkFromCursor(d) ==
    LET begin == startTime(now, nextStartTime)
        id == Len(nodes) + 1
    IN  /\ nodes' = Append(nodes, Node(begin, d))
        /\ nextStartTime' = nextStartTime + d
        /\ sources' = Append(sources, id)
        /\ lastNode' = id

scheduleChunkFromNow(d) ==
    LET begin == startTime(now, nextStartTime)
        id == Len(nodes) + 1
    IN  /\ nodes' = Append(nodes, Node(begin, d))
        /\ nextStartTime' = now + d
        /\ sources' = Append(sources, id)
        /\ lastNode' = id

\* part_000:131-169  scheduleChunk(base64) for a chunk that decodes to a
\* buffer of duration d > 0: the node is started at startTime, the cursor
\* moves to its end and the node joins sourcesRef.current.
scheduleChunk(d) ==
    LET begin == startTime(now, nextStartTime)
        id == Len(nodes) + 1
    IN  /\ nodes' = Append(nodes, Node(begin, d))
        /\ nextStartTime' = begin + d
        /\ sources' = Append(sources, id)
        /\ lastNode' = id

\* part_000:104-110  the callback handed to streamSpeech, called once per
\* audio chunk of the stream (geminiService.tsx:183-188).  d = 0 stands for
\* a chunk that scheduleChunk cannot decode (invalid base64, an odd number
\* of bytes, no samples): the exception is caught and null is returned.
OnAudioChunk(r, d) ==
    /\ component = "MessageBubble" /\ mounted
    /\ r \in DOMAIN runs /\ runs[r].pc = "streaming"
    /\ isLoadingAudio' = IF runs[r].isFirstChunk THEN FALSE ELSE isLoadingAudio
    /\ IF d > 0
       THEN /\ BubbleLoad < MaxEvents
            /\ scheduleChunk(d)
            /\ runs' = [runs EXCEPT ![r].isFirstChunk = FALSE,
                                    ![r].activeSource = Len(nodes) + 1]
       ELSE /\ runs' = [runs EXCEPT ![r].isFirstChunk = FALSE,
                                    ![r].activeSource = 0]
            /\ UNCHANGED <<nodes, nextStartTime, sources, lastNode>>
    /\ UNCHANGED <<component, svcVars, codecVars, liveVars, now, audioContext, isSpeaking, mounted>>

\* part_000:112-122  handleSpeak after streamSpeech resolved (it resolves on
\* the end of the stream and on a remote failure alike, geminiService.tsx:
\* 170-192): the drain handler replaces the onended of the last node, or,
\* when the last chunk produced no node, both flags are cleared at once.
StreamEnd(r) ==
    /\ component = "MessageBubble" /\ mounted
    /\ r \in DOMAIN runs /\ runs[r].pc = "streaming"
    /\ runs' = [runs EXCEPT ![r] = Returned]
    /\ IF runs[r].activeSource # 0
       THEN /\ nodes' = SetOnEnded(nodes, runs[r].activeSource)
            /\ UNCHANGED <<isSpeaking, isLoadingAudio>>
       ELSE /\ isSpeaking' = FALSE
            /\ isLoadingAudio' = FALSE
            /\ UNCHANGED nodes
    /\ UNCHANGED <<component, svcVars, codecVars, liveVars, now, audioContext, nextStartTime, sources, mounted, lastNode>>

\* The ended event of a node that played to its end.  part_000:158-161
\* removes the node from sourcesRef.current; part_000:114-118, when it has
\* replaced that handler, clears isSpeaking if the device time is within
\* 0.5 s of the cursor and leaves sourcesRef.current alone.
OnEnded(i) ==
    /\ component = "MessageBubble"
    /\ audioContext = "running"
    /\ i \in DOMAIN nodes /\ nodes[i].state = "scheduled" /\ NodeEnd(nodes[i]) <= now
    /\ nodes' = [nodes EXCEPT ![i].state = "ended"]
    /\ IF nodes[i].onended = "remove"
       THEN /\ sources' = Splice(sources, i)
            /\ UNCHANGED isSpeaking
       ELSE /\ isSpeaking' = IF now >= nextStartTime - DrainTolerance THEN FALSE ELSE isSpeaking
            /\ UNCHANGED sources
    /\ UNCHANGED <<component, svcVars, codecVars, liveVars, now, audioContext, isLoadingAudio, nextStartTime, runs, mounted, lastNode>>

\* The device clock advances.  An ended event is dispatched as soon as its
\* node has played out, so the clock does not pass a tick while one is due.
Tick ==
    /\ component = "MessageBubble"
    /\ audioContext = "running" /\ now < MaxTime
    /\ \A i \in DOMAIN nodes : nodes[i].state = "scheduled" => NodeEnd(nodes[i]) > now
    /\ now' = now + 1
    /\ UNCHANGED <<component, svcVars, codecVars, liveVars, audioContext, isSpeaking, isLoadingAudio, nextStartTime,
                   sources, nodes, runs, mounted, lastNode>>

\* part_000:27-34   the unmount cleanup: stopAudio(), then close the context.
\* The component's React state is gone with it.  A closed context plays
\* nothing and its clock stands still, so the player is followed no further:
\* the chunks a stream still delivers after the unmount reach no listener.
Unmount ==
    /\ component = "MessageBubble" /\ mounted
    /\ mounted' = FALSE
    /\ isLoadingAudio' = FALSE
    /\ StopAudioStep
    /\ audioContext' = IF audioContext = "running" THEN "closed" ELSE audioContext
    /\ UNCHANGED <<component, svcVars, codecVars, liveVars, now, runs>>

NextBubble ==
    \/ ClickStop
    \/ ClickSpeakEmpty
    \/ ClickSpeak
    \/ \E r \in RunIds, d \in Chunks : OnAudioChunk(r, d)
    \/ \E r \in RunIds : StreamEnd(r)
    \/ \E i \in 1..MaxEvents : OnEnded(i)
    \/ Tick
    \/ Unmount

\* ======================================================= SampleCodec ======

\* A sample is a rational number num/den (den > 0); a Float32Array is a
\* sequence of samples.  The frames handed to the codec take their samples
\* from Samples: -2, -1, -0.9, -0.5, -0.1, 0, 0.1, 0.5, 0.9, 1 and 2.
Sample(n, d) == [num |-> n, den |-> d]
Samples == {Sample(n, 10) : n \in {-20, -10, -9, -5, -1, 0, 1, 5, 9, 10, 20}}

\* part_000:588   Math.max(-1, Math.min(1, inputData[i]))
Clamp(x) ==
    IF x.num > x.den THEN Sample(1, 1)
    ELSE IF x.num < -x.den THEN Sample(-1, 1)
    ELSE x

\* Storing a number in an Int16Array element: the fraction is dropped
\* (towards zero) and the integer is reduced modulo 2^16 into -32768..32767.
Trunc(n, d) == IF n >= 0 THEN n \div d ELSE -((-n) \div d)
ToInt16(n) == ((n + 32768) % 65536) - 32768

quantizeSwappedScales(x) ==
    LET s == Clamp(x) IN
    ToInt16(Trunc(s.num * (IF s.num < 0 THEN 32767 ELSE 32768), s.den))

\* part_000:588-589   int16[i] = s < 0 ? s * 0x8000 : s * 0x7FFF
quantize(x) ==
    LET s == Clamp(x) IN
    ToInt16(Trunc(s.num * (IF s.num < 0 THEN 32768 ELSE 32767), s.den))

\* part_000:593   new Uint8Array(int16.buffer): two bytes per element, the
\* low byte first, in two's complement.
Uint8Array(int16) ==
    [j \in 1..(2 * Len(int16)) |->
        LET u == int16[(j + 1) \div 2] % 65536
        IN  IF j % 2 = 1 THEN u % 256 ELSE u \div 256]

\* base64 text is a sequence of characters: 0..63 for the 64 digits of the
\* alphabet, Pad for '='.
Pad == 64

\* part_000:592-597   btoa over the binary string of the bytes: every three
\* bytes give four digits, an incomplete last group is padded with '='.
btoa(bytes) ==
    LET n == Len(bytes)
        byte(i) == IF i <= n THEN bytes[i] ELSE 0
    IN  [p \in 1..(4 * ((n + 2) \div 3)) |->
            LET g == (p - 1) \div 4
                r == (p - 1) % 4
                triple == byte(3*g + 1) * 65536 + byte(3*g + 2) * 256 + byte(3*g + 3)
            IN  IF r >= 2 /\ 3*g + r > n THEN Pad
                ELSE IF r = 0 THEN triple \div 262144
                ELSE IF r = 1 THEN (triple \div 4096) % 64
                ELSE IF r = 2 THEN (triple \div 64) % 64
                ELSE triple % 64]

\* part_000:601-605   atob and the copy of the binary string into bytes:
\* every four digits give three bytes, less one byte per '='.
atob(text) ==
    LET m == Len(text)
        pads == Cardinality({p \in 1..m : text[p] = Pad})
        digit(p) == IF text[p] = Pad THEN 0 ELSE text[p]
    IN  [j \in 1..(3 * (m \div 4) - pads) |->
            LET g == (j - 1) \div 3
                i == (j - 1) % 3
                triple == digit(4*g + 1) * 262144 + digit(4*g + 2) * 4096
                          + digit(4*g + 3) * 64 + digit(4*g + 4)
            IN  IF i = 0 THEN triple \div 65536
                ELSE IF i = 1 THEN (triple \div 256) % 256
                ELSE triple % 256]

\* A character that is neither a digit of the base64 alphabet nor '='.
Other == 65

\* part_000:601 (and part_000:136)   atob throws an InvalidCharacterError
\* when, the padding of a text whose length is a multiple of four set
\* aside, a character is not a digit of the alphabet or one digit is left
\* over after the groups of four.
InvalidCharacterError(text) ==
    LET m == Len(text)
        pads == IF m % 4 = 0 /\ m > 0 /\ text[m] = Pad
                THEN (IF text[m - 1] = Pad THEN 2 ELSE 1)
                ELSE 0
    IN  \/ \E p \in 1..(m - pads) : text[p] \notin 0..63
        \/ (m - pads) % 4 = 1

\* part_000:606 (and part_000:141)   new Int16Array(buffer) throws a
\* RangeError when the buffer's byte length is not a multiple of two.
RangeError(bytes) == Len(bytes) % 2 = 1

\* part_000:606   new Int16Array(bytes.buffer): one element per two bytes.
Int16Array(bytes) ==
    [i \in 1..(Len(bytes) \div 2) |-> ToInt16(bytes[2*i - 1] + 256 * bytes[2*i])]

Int8Array(bytes) ==
    [i \in 1..Len(bytes) |-> IF bytes[i] >= 128 THEN bytes[i] - 256 ELSE bytes[i]]

\* part_000:584-598   encodeAudio
encodeAudio(data) ==
    btoa(Uint8Array([i \in 1..Len(data) |-> quantize(data[i])]))

decodeAudioDataBytewise(base64String) ==
    LET int16 == Int8Array(atob(base64String))
    IN  [i \in 1..Len(int16) |-> Sample(int16[i], 32768)]

\* part_000:600-612   decodeAudioData: float32[i] = int16[i] / 32768.0
decodeAudioData(base64String) ==
    LET int16 == Int16Array(atob(base64String))
    IN  [i \in 1..Len(int16) |-> Sample(int16[i], 32768)]

\* part_000:600-612 (and part_000:136-143)   decoding throws: atob does,
\* or else the Int16Array constructor does.
DecodeError(base64String) ==
    InvalidCharacterError(base64String) \/ RangeError(atob(base64String))

\* The encoded chunks the remote side delivers: two well-formed ones, of one
\* and of two samples, two that decode to an odd number of bytes, one with
\* an invalid character and one of a single digit.
Blobs ==
    {encodeAudio(<<Sample(5, 10)>>), encodeAudio(<<Sample(5, 10), Sample(-5, 10)>>),
     btoa(<<1>>), btoa(<<1, 2, 3>>), <<Other, 0, 0, 0>>, <<0>>}

DurationOfGarbage(base64String) == Len(Int16Array(atob(base64String)))

\* part_000:145, 698   ctx.createBuffer(1, float32.length, 24000): the
\* duration of the buffer a chunk decodes to, 0 when decoding throws.  One
\* sample of the model stands for a tick's worth of samples.
Duration(base64String) ==
    IF DecodeError(base64String) THEN 0 ELSE Len(decodeAudioData(base64String))

\* The chunks of Blobs that cannot be decoded.
Malformed == {b \in Blobs : DecodeError(b)}

\* The frames of at most MaxSamples samples.
InputFrames == UNION {[1..n -> Samples] : n \in 0..MaxSamples}

\* A frame is encoded (part_000:676) ...
Encode ==
    /\ component = "SampleCodec" /\ codecPc = "input"
    /\ codecPc' = "encoded"
    /\ base64Data' = encodeAudio(inputData)
    /\ UNCHANGED <<component, svcVars, inputData, float32Data, ttsVars, liveVars>>

\* ... and what it was encoded to is decoded again (part_000:697).
Decode ==
    /\ component = "SampleCodec" /\ codecPc = "encoded"
    /\ codecPc' = "decoded"
    /\ float32Data' = decodeAudioData(base64Data)
    /\ UNCHANGED <<component, svcVars, inputData, base64Data, ttsVars, liveVars>>

NextCodec == Encode \/ Decode

\* ==================================================== LiveVoiceModal ======

startIgnoringCursor(currentTime, nextStart) == currentTime

\* part_000:706   const start = Math.max(currentTime, nextStartTimeRef.current)
start(currentTime, nextStart) == Max(currentTime, nextStart)

\* A buffer source started by onmessage: its start and its duration.
LiveNode(begin, dur) == [begin |-> begin, dur |-> dur]

\* An invocation of connect: where it stands ("media": awaiting getUserMedia,
\* part_000:626; "handshake": awaiting ai.live.connect, part_000:646;
\* "session": the remote session is open and its callbacks fire; "failed":
\* the catch block ran; "closed": the remote side closed the session), the
\* isMuted its closures captured (connect is rebuilt when isMuted changes,
\* part_000:734), the MediaStream it acquired ("none", "live", "stopped":
\* its tracks were stopped) and the capture graph its onopen built ("none",
\* "running", "disconnected": source and processor were disconnected).
Conn(pc, muted) == [pc |-> pc, isMuted |-> muted, stream |-> "none", capture |-> "none"]

\* part_000:747  if (audioContextRef.current) audioContextRef.current.close()
\* The ref keeps pointing at the closed context.
Close(ctx) == IF ctx = "null" THEN "null" ELSE "closed"

\* part_000:742-746  the cleanup's releases, on what the refs point at:
\* the tracks of mediaStreamRef.current are stopped, processorRef.current
\* and sourceRef.current are disconnected.  No ref is cleared.
Release(cs, streamRef, procRef) ==
    [k \in DOMAIN cs |->
        [cs[k] EXCEPT !.stream = IF k = streamRef THEN "stopped" ELSE @,
                      !.capture = IF k = procRef THEN "disconnected" ELSE @]]

\* What the modal has handled and holds pending, against MaxEvents.
Load == Len(conns) + Len(liveNodes) + frames + timers

\* part_000:742-747  what the cleanup releases: whatever a ref that is not
\* null points at, whether or not it has been released before.
Releases ==
    (IF mediaStreamRef # 0 THEN {<<"stream", conns[mediaStreamRef].stream>>} ELSE {})
    \cup (IF processorRef # 0 THEN {<<"graph", conns[processorRef].capture>>} ELSE {})
    \cup (IF liveAudioContext # "null" THEN {<<"context", liveAudioContext>>} ELSE {})

\* part_000:614-626  connect up to its first await: without an API key it
\* throws into its catch block (part_000:730-733); otherwise a new
\* output context, whose clock starts at zero, replaces the old one and the
\* input device is requested.  The cursor is not touched.
connect(ctx, cs, muted) ==
    IF ~apiKey
    THEN /\ status' = "error"
         /\ liveAudioContext' = ctx
         /\ conns' = Append(cs, Conn("failed", muted))
         /\ UNCHANGED <<liveNow, liveNextStartTime>>
    ELSE /\ status' = "connecting"
         /\ liveAudioContext' = "running"
         /\ liveNow' = 0
         /\ conns' = Append(cs, Conn("media", muted))
         /\ UNCHANGED liveNextStartTime

\* part_000:736-749  the effect runs again because isOpen or connect (whose
\* dependencies are grade, subject, isMuted and onClose) changed: the old
\* cleanup, then mountedRef.current = true and, if the modal is open, connect().
Effect(open, muted) ==
    LET closed == Close(liveAudioContext)
        released == Release(conns, mediaStreamRef, processorRef)
    IN  /\ mountedRef' = TRUE
        /\ IF open
           THEN /\ Load < MaxEvents /\ Len(conns) < Cardinality(ConnIds)
                /\ connect(closed, released, muted)
           ELSE /\ liveAudioContext' = closed
                /\ conns' = released
                /\ UNCHANGED <<status, liveNow, liveNextStartTime>>

\* The parent opens or closes the modal (the isOpen prop changes).
SetIsOpen ==
    /\ component = "LiveVoiceModal" /\ modalMounted
    /\ isOpen' = ~isOpen
    /\ Effect(~isOpen, isMuted)
    /\ UNCHANGED <<component, svcVars, codecVars, ttsVars, apiKey, isMuted, liveNodes, modalMounted,
                   mediaStreamRef, processorRef, volumeLevel, timers, frames, sent>>

\* part_000:808  the mute button: setIsMuted(!isMuted).  connect depends on
\* isMuted, so the effect runs again.  The button is rendered while the
\* status is connected (part_000:783).
ToggleMute ==
    /\ component = "LiveVoiceModal" /\ modalMounted
    /\ isOpen /\ status = "connected"
    /\ isMuted' = ~isMuted
    /\ Effect(isOpen, ~isMuted)
    /\ UNCHANGED <<component, svcVars, codecVars, ttsVars, apiKey, isOpen, liveNodes, modalMounted,
                   mediaStreamRef, processorRef, volumeLevel, timers, frames, sent>>

\* part_000:740-748  the modal is unmounted: the cleanup runs and the effect
\* does not run again.  The props and the React state of the instance are
\* gone (they read as in Init from here on) and a later setState does
\* nothing; the refs and whatever the connects hold live on.
ModalUnmount ==
    /\ component = "LiveVoiceModal" /\ modalMounted
    /\ modalMounted' = FALSE
    /\ mountedRef' = FALSE
    /\ liveAudioContext' = Close(liveAudioContext)
    /\ conns' = Release(conns, mediaStreamRef, processorRef)
    /\ isOpen' = FALSE
    /\ status' = "connecting"
    /\ isMuted' = FALSE
    /\ volumeLevel' = 0
    /\ UNCHANGED <<component, svcVars, codecVars, ttsVars, apiKey, liveNow,
                   liveNextStartTime, liveNodes, mediaStreamRef, processorRef,
                   timers, frames, sent>>

\* part_000:626-632  getUserMedia resolved: the stream is kept in
\* mediaStreamRef and the remote session is requested.
GetUserMediaOk(k) ==
    /\ component = "LiveVoiceModal"
    /\ k \in DOMAIN conns /\ conns[k].pc = "media"
    /\ conns' = [conns EXCEPT ![k].pc = "handshake", ![k].stream = "live"]
    /\ mediaStreamRef' = k
    /\ UNCHANGED <<component, svcVars, codecVars, ttsVars, apiKey, isOpen, status, isMuted, mountedRef,
                   liveAudioContext, liveNow, liveNextStartTime, liveNodes, modalMounted,
                   processorRef, volumeLevel, timers, frames, sent>>

ConnectFailDegraded(k) ==
    /\ component = "LiveVoiceModal"
    /\ k \in DOMAIN conns /\ conns[k].pc \in {"media", "handshake"}
    /\ conns' = [conns EXCEPT ![k].pc = IF @ = "media" THEN "handshake" ELSE "failed"]
    /\ status' = IF modalMounted THEN "error" ELSE status
    /\ UNCHANGED <<component, svcVars, codecVars, ttsVars, apiKey, isOpen, isMuted, mountedRef,
                   liveAudioContext, liveNow, liveNextStartTime, liveNodes, modalMounted,
                   mediaStreamRef, processorRef, volumeLevel, timers, frames, sent>>

\* part_000:730-733  an await of connect rejected (the input device was
\* refused, or the remote handshake failed): setStatus('error').
ConnectFail(k) ==
    /\ component = "LiveVoiceModal"
    /\ k \in DOMAIN conns /\ conns[k].pc \in {"media", "handshake"}
    /\ conns' = [conns EXCEPT ![k].pc = "failed"]
    /\ status' = IF modalMounted THEN "error" ELSE status
    /\ UNCHANGED <<component, svcVars, codecVars, ttsVars, apiKey, isOpen, isMuted, mountedRef,
                   liveAudioContext, liveNow, liveNextStartTime, liveNodes, modalMounted,
                   mediaStreamRef, processorRef, volumeLevel, timers, frames, sent>>

\* part_000:658-690, 729  the remote session opened: onopen runs and the
\* promise of ai.live.connect resolves.  Unless the cleanup has run since
\* (and the effect not again), onopen sets the status and builds the capture
\* graph on the stream this connect acquired.
OnOpen(k) ==
    /\ component = "LiveVoiceModal"
    /\ k \in DOMAIN conns /\ conns[k].pc = "handshake"
    /\ IF mountedRef
       THEN /\ status' = "connected"
            /\ conns' = [conns EXCEPT ![k].pc = "session", ![k].capture = "running"]
            /\ processorRef' = k
       ELSE /\ conns' = [conns EXCEPT ![k].pc = "session"]
            /\ UNCHANGED <<status, processorRef>>
    /\ UNCHANGED <<component, svcVars, codecVars, ttsVars, apiKey, isOpen, isMuted, mountedRef,
                   liveAudioContext, liveNow, liveNextStartTime, liveNodes, modalMounted,
                   mediaStreamRef, volumeLevel, timers, frames, sent>>

\* The capture frames the input device delivers: silence, a quiet frame
\* (0.1, -0.1) and a full-scale frame (1, -1).
Silence == <<Sample(0, 10), Sample(0, 10)>>
Quiet == <<Sample(1, 10), Sample(-1, 10)>>
FullScale == <<Sample(10, 10), Sample(-10, 10)>>
Frames == {Silence, Quiet, FullScale}

\* The largest r with r * r <= n, by bisection of lo..hi.
RECURSIVE Bisect(_, _, _)
Bisect(n, lo, hi) ==
    IF lo = hi THEN lo
    ELSE LET mid == (lo + hi + 1) \div 2
         IN  IF mid * mid <= n THEN Bisect(n, mid, hi) ELSE Bisect(n, lo, mid - 1)

RECURSIVE SumOfSquares(_)
SumOfSquares(f) == IF f = <<>> THEN 0 ELSE Head(f).num * Head(f).num + SumOfSquares(Tail(f))

loudnessUnclamped(f) ==
    Bisect((250000 * SumOfSquares(f)) \div Len(f), 0, 5000) \div f[1].den

\* part_000:668-674   Math.min(Math.sqrt(sum / inputData.length) * 5, 1), in
\* hundredths (100 is the level 1), rounded down.  The samples of a frame
\* share their denominator.
loudness(f) ==
    LET level == Bisect((250000 * SumOfSquares(f)) \div Len(f), 0, 5000) \div f[1].den
    IN  IF level < 100 THEN level ELSE 100

\* part_000:710   Math.random() * 0.5 + 0.3, in hundredths: a level from 0.3
\* up to, not including, 0.8.
Activity == {30, 79}

\* part_000:665-683   onaudioprocess of connect k's processor, for a frame f.
\* The handler returns at once when the isMuted of its closure is set;
\* otherwise it publishes the loudness and hands the encoded frame to
\* session.sendRealtimeInput.
OnAudioProcess(k, f) ==
    /\ component = "LiveVoiceModal"
    /\ k \in DOMAIN conns /\ conns[k].capture = "running"
    /\ Load < MaxEvents
    /\ frames' = frames + 1
    /\ IF conns[k].isMuted
       THEN UNCHANGED <<volumeLevel, sent>>
       ELSE /\ volumeLevel' = IF modalMounted THEN loudness(f) ELSE volumeLevel
            /\ sent' = sent + 1
    /\ UNCHANGED <<component, svcVars, codecVars, ttsVars, apiKey, isOpen, status, isMuted, mountedRef,
                   liveAudioContext, liveNow, liveNextStartTime, liveNodes, modalMounted,
                   mediaStreamRef, processorRef, timers, conns>>

\* part_000:698-708   the buffer of duration d is started at `start` on the
\* current output context and the cursor moves to its end.
playBuffer(d) ==
    LET begin == start(liveNow, liveNextStartTime) IN
    /\ liveNodes' = Append(liveNodes, LiveNode(begin, d))
    /\ liveNextStartTime' = begin + d

OnMessageWithTimeout(k, d) ==
    /\ component = "LiveVoiceModal"
    /\ k \in DOMAIN conns /\ conns[k].pc = "session"
    /\ IF mountedRef
       THEN /\ Load < MaxEvents
            /\ timers' = timers + 1
            /\ status' = IF liveNow > liveNextStartTime THEN "error" ELSE status
            /\ IF d > 0 /\ liveAudioContext # "null"
               THEN /\ playBuffer(d)
                    /\ volumeLevel' \in Activity
               ELSE UNCHANGED <<liveNodes, liveNextStartTime, volumeLevel>>
       ELSE UNCHANGED <<liveNodes, liveNextStartTime, volumeLevel, timers, status>>
    /\ UNCHANGED <<component, svcVars, codecVars, ttsVars, apiKey, isOpen, isMuted, mountedRef,
                   liveAudioContext, liveNow, conns, modalMounted,
                   mediaStreamRef, processorRef, frames, sent>>

\* part_000:691-717  onmessage.  d > 0: the message carries audio that
\* decodes to a buffer of duration d; d = 0: it carries none.  The buffer
\* is started on whatever context audioContextRef.current holds now and the
\* level shows a random activity; every message arms a timer that resets
\* the level.
OnMessage(k, d) ==
    /\ component = "LiveVoiceModal"
    /\ k \in DOMAIN conns /\ conns[k].pc = "session"
    /\ IF mountedRef
       THEN /\ Load < MaxEvents
            /\ timers' = timers + 1
            /\ IF d > 0 /\ liveAudioContext # "null"
               THEN /\ playBuffer(d)
                    /\ volumeLevel' \in Activity
               ELSE UNCHANGED <<liveNodes, liveNextStartTime, volumeLevel>>
       ELSE UNCHANGED <<liveNodes, liveNextStartTime, volumeLevel, timers>>
    /\ UNCHANGED <<component, svcVars, codecVars, ttsVars, apiKey, isOpen, status, isMuted, mountedRef,
                   liveAudioContext, liveNow, conns, modalMounted,
                   mediaStreamRef, processorRef, frames, sent>>

\* part_000:691-697  onmessage with audio that decodeAudioData cannot
\* decode (any chunk of Malformed): the call at part_000:697 is inside no
\* try block, so the exception leaves the handler there, before the cursor,
\* the level or the timer are touched: the handler has changed nothing.
OnMessageThrows(k) ==
    /\ component = "LiveVoiceModal"
    /\ k \in DOMAIN conns /\ conns[k].pc = "session"
    /\ mountedRef /\ liveAudioContext # "null"
    /\ UNCHANGED vars

\* part_000:713   setTimeout(() => setVolumeLevel(0), 200) fires.
VolumeReset ==
    /\ component = "LiveVoiceModal"
    /\ timers > 0
    /\ timers' = timers - 1
    /\ volumeLevel' = IF modalMounted THEN 0 ELSE volumeLevel
    /\ UNCHANGED <<component, svcVars, codecVars, ttsVars, apiKey, isOpen, status, isMuted, mountedRef,
                   liveAudioContext, liveNow, liveNextStartTime, liveNodes, conns,
                   modalMounted, mediaStreamRef, processorRef, frames, sent>>

\* part_000:722-725  onerror: the transport reported a fault.
OnError(k) ==
    /\ component = "LiveVoiceModal"
    /\ k \in DOMAIN conns /\ conns[k].pc = "session"
    /\ status' = IF mountedRef THEN "error" ELSE status
    /\ UNCHANGED <<component, svcVars, codecVars, ttsVars, apiKey, isOpen, isMuted, mountedRef,
                   liveAudioContext, liveNow, liveNextStartTime, liveNodes, conns,
                   modalMounted, mediaStreamRef, processorRef, volumeLevel, timers, frames, sent>>

\* part_000:718-721  onclose: the remote side closed the session; onClose()
\* makes the parent close the modal, and the effect runs again.
OnClose(k) ==
    /\ component = "LiveVoiceModal"
    /\ k \in DOMAIN conns /\ conns[k].pc = "session"
    /\ IF mountedRef /\ isOpen
       THEN /\ isOpen' = FALSE
            /\ mountedRef' = TRUE
            /\ liveAudioContext' = Close(liveAudioContext)
            /\ conns' = [Release(conns, mediaStreamRef, processorRef) EXCEPT ![k].pc = "closed"]
       ELSE /\ conns' = [conns EXCEPT ![k].pc = "closed"]
            /\ UNCHANGED <<isOpen, mountedRef, liveAudioContext>>
    /\ UNCHANGED <<component, svcVars, codecVars, ttsVars, apiKey, status, isMuted, liveNow,
                   liveNextStartTime, liveNodes, modalMounted, mediaStreamRef, processorRef,
                   volumeLevel, timers, frames, sent>>

\* The clock of the current output context advances while it is running.
LiveTick ==
    /\ component = "LiveVoiceModal"
    /\ liveAudioContext = "running" /\ liveNow < MaxTime
    /\ liveNow' = liveNow + 1
    /\ UNCHANGED <<component, svcVars, codecVars, ttsVars, apiKey, isOpen, status, isMuted, mountedRef,
                   liveAudioContext, liveNextStartTime, liveNodes, conns, modalMounted,
                   mediaStreamRef, processorRef, volumeLevel, timers, frames, sent>>

NextLive ==
    \/ SetIsOpen
    \/ ToggleMute
    \/ ModalUnmount
    \/ \E k \in ConnIds : GetUserMediaOk(k)
    \/ \E k \in ConnIds : ConnectFail(k)
    \/ \E k \in ConnIds : OnOpen(k)
    \/ \E k \in ConnIds, f \in Frames : OnAudioProcess(k, f)
    \/ \E k \in ConnIds, d \in Chunks : OnMessage(k, d)
    \/ \E k \in ConnIds : OnMessageThrows(k)
    \/ VolumeReset
    \/ \E k \in ConnIds : OnError(k)
    \/ \E k \in ConnIds : OnClose(k)
    \/ LiveTick

Init ==
    /\ component \in {"MessageBubble", "LiveVoiceModal"}
    /\ now = 0
    /\ audioContext = "null"
    /\ isSpeaking = FALSE
    /\ isLoadingAudio = FALSE
    /\ nextStartTime = 0
    /\ sources = <<>>
    /\ nodes = <<>>
    /\ runs = <<>>
    /\ mounted = TRUE
    /\ lastNode = 0
    /\ apiKey \in (IF component = "LiveVoiceModal" THEN BOOLEAN ELSE {TRUE})
    /\ isOpen = FALSE
    /\ status = "connecting"
    /\ isMuted = FALSE
    /\ mountedRef = TRUE
    /\ liveAudioContext = "null"
    /\ liveNow = 0
    /\ liveNextStartTime = 0
    /\ liveNodes = <<>>
    /\ conns = <<>>
    /\ modalMounted = TRUE
    /\ mediaStreamRef = 0
    /\ processorRef = 0
    /\ volumeLevel = 0
    /\ timers = 0
    /\ frames = 0
    /\ sent = 0
    /\ svcPc = "idle"
    /\ remote = <<>>
    /\ pos = 0
    /\ fullText = <<>>
    /\ groundingSources = <<>>
    /\ calls = <<>>
    /\ result = <<>>
    /\ codecPc = "idle"
    /\ inputData = <<>>
    /\ base64Data = <<>>
    /\ float32Data = <<>>

Next == NextBubble \/ NextLive

Spec == Init /\ [][Next]_vars

\* The codec applied to every frame of InputFrames; the components are idle.
CodecInit ==
    /\ component = "SampleCodec"
    /\ codecPc = "input"
    /\ inputData \in InputFrames
    /\ base64Data = <<>>
    /\ float32Data = <<>>
    /\ now = 0
    /\ audioContext = "null"
    /\ isSpeaking = FALSE
    /\ isLoadingAudio = FALSE
    /\ nextStartTime = 0
    /\ sources = <<>>
    /\ nodes = <<>>
    /\ runs = <<>>
    /\ mounted = TRUE
    /\ lastNode = 0
    /\ apiKey = TRUE
    /\ isOpen = FALSE
    /\ status = "connecting"
    /\ isMuted = FALSE
    /\ mountedRef = TRUE
    /\ liveAudioContext = "null"
    /\ liveNow = 0
    /\ liveNextStartTime = 0
    /\ liveNodes = <<>>
    /\ conns = <<>>
    /\ modalMounted = TRUE
    /\ mediaStreamRef = 0
    /\ processorRef = 0
    /\ volumeLevel = 0
    /\ timers = 0
    /\ frames = 0
    /\ sent = 0
    /\ svcPc = "idle"
    /\ remote = <<>>
    /\ pos = 0
    /\ fullText = <<>>
    /\ groundingSources = <<>>
    /\ calls = <<>>
    /\ result = <<>>

CodecSpec == CodecInit /\ [][NextCodec]_vars

\* The two schedulers side by side: both start from the same cursor, their
\* device clocks read the same time, and every fragment is handed to both.
SchedInit ==
    /\ component = "PlaybackScheduler"
    /\ nextStartTime \in 0..MaxTime
    /\ liveNextStartTime = nextStartTime
    /\ now = 0
    /\ liveNow = 0
    /\ audioContext = "running"
    /\ liveAudioContext = "running"
    /\ isSpeaking = FALSE
    /\ isLoadingAudio = FALSE
    /\ sources = <<>>
    /\ nodes = <<>>
    /\ runs = <<>>
    /\ mounted = TRUE
    /\ lastNode = 0
    /\ apiKey = TRUE
    /\ isOpen = FALSE
    /\ status = "connecting"
    /\ isMuted = FALSE
    /\ mountedRef = TRUE
    /\ liveNodes = <<>>
    /\ conns = <<>>
    /\ modalMounted = TRUE
    /\ mediaStreamRef = 0
    /\ processorRef = 0
    /\ volumeLevel = 0
    /\ timers = 0
    /\ frames = 0
    /\ sent = 0
    /\ svcPc = "idle"
    /\ remote = <<>>
    /\ pos = 0
    /\ fullText = <<>>
    /\ groundingSources = <<>>
    /\ calls = <<>>
    /\ result = <<>>
    /\ codecPc = "idle"
    /\ inputData = <<>>
    /\ base64Data = <<>>
    /\ float32Data = <<>>

\* A fragment of duration d arrives: scheduleChunk (part_000:152-156) and
\* the scheduling lines of onmessage (part_000:705-708) both handle it.
Arrive(d) ==
    /\ component = "PlaybackScheduler"
    /\ Len(nodes) < MaxEvents
    /\ scheduleChunk(d)
    /\ playBuffer(d)
    /\ UNCHANGED <<component, svcVars, codecVars, now, audioContext, isSpeaking, isLoadingAudio,
                   runs, mounted, apiKey, isOpen, status, isMuted, mountedRef,
                   liveAudioContext, liveNow, conns, modalMounted, mediaStreamRef,
                   processorRef, volumeLevel, timers, frames, sent>>

\* Both device clocks advance by a tick.
Elapse ==
    /\ component = "PlaybackScheduler"
    /\ now < MaxTime
    /\ now' = now + 1
    /\ liveNow' = liveNow + 1
    /\ UNCHANGED <<component, svcVars, codecVars, audioContext, isSpeaking, isLoadingAudio,
                   nextStartTime, sources, nodes, runs, mounted, lastNode,
                   apiKey, isOpen, status, isMuted, mountedRef, liveAudioContext,
                   liveNextStartTime, liveNodes, conns, modalMounted, mediaStreamRef,
                   processorRef, volumeLevel, timers, frames, sent>>

NextSched == (\E d \in Durations : Arrive(d)) \/ Elapse

SchedSpec == SchedInit /\ [][NextSched]_vars

\* ===================================================== geminiService ======

\* Text is a sequence of characters.  geminiService.tsx:137  the fixed
\* message returned from the catch block; no stream yields its character.
Apology == <<"!">>

\* A chunk of the text stream: chunk.text (empty when it is missing,
\* geminiService.tsx:113) and the web.uri entries of its grounding chunks.
TextChunks == [text : {<<>>, <<"a">>, <<"b">>}, uris : {<<>>, <<"u">>, <<"v">>}]

\* A chunk of the speech stream: its inlineData.data when it has one (the
\* base64 text, which may be the empty string), nothing otherwise.
SpeechChunks == {<<>>, << <<>> >>, << <<"x">> >>, << <<"y">> >>}

StreamsOf(chunks) == UNION {[1..n -> chunks] : n \in 0..MaxChunks}

replaceText(text, chunkText) == chunkText

\* geminiService.tsx:114   fullText += chunkText
accumulate(text, chunkText) == text \o chunkText

\* geminiService.tsx:116-122   groundingSources.add(...) for every grounding
\* chunk with a web.uri; a Set keeps one copy, in insertion order.
RECURSIVE AddAll(_, _)
AddAll(set, uris) ==
    IF uris = <<>> THEN set
    ELSE AddAll(IF \E i \in DOMAIN set : set[i] = Head(uris) THEN set
                ELSE Append(set, Head(uris)), Tail(uris))

\* geminiService.tsx:128   the sources paragraph: a heading, then a line
\* for each source.
sourcesText(set) == <<"#">> \o set

\* geminiService.tsx:112-125   one round of the for-await loop of
\* generateStreamResponse.
TextChunk ==
    /\ component = "generateStreamResponse" /\ svcPc = "streaming"
    /\ pos < Len(remote)
    /\ LET chunk == remote[pos + 1]
           text == accumulate(fullText, chunk.text)
       IN  /\ fullText' = text
           /\ groundingSources' = AddAll(groundingSources, chunk.uris)
           /\ calls' = Append(calls, text)
    /\ pos' = pos + 1
    /\ UNCHANGED <<component, svcPc, remote, result, codecVars, ttsVars, liveVars>>

\* geminiService.tsx:127-133   the stream is exhausted: the sources, if
\* any, are appended and reported, and fullText is returned.
TextDone ==
    /\ component = "generateStreamResponse" /\ svcPc = "streaming"
    /\ pos = Len(remote)
    /\ LET text == IF groundingSources # <<>>
                   THEN fullText \o sourcesText(groundingSources)
                   ELSE fullText
       IN  /\ fullText' = text
           /\ calls' = IF groundingSources # <<>> THEN Append(calls, text) ELSE calls
           /\ result' = text
    /\ svcPc' = "completed"
    /\ UNCHANGED <<component, remote, pos, groundingSources, codecVars, ttsVars, liveVars>>

\* geminiService.tsx:135-138   sendMessageStream or the iteration rejected:
\* the catch block returns the fixed message.
TextFails ==
    /\ component = "generateStreamResponse" /\ svcPc = "streaming"
    /\ svcPc' = "caught"
    /\ result' = Apology
    /\ UNCHANGED <<component, remote, pos, fullText, groundingSources, calls,
                   codecVars, ttsVars, liveVars>>

Defined(chunk) == chunk # <<>>

\* geminiService.tsx:185-186   if (audioData): the chunk has inlineData.data
\* and it is not the empty string.
Truthy(chunk) == chunk # <<>> /\ chunk[1] # <<>>

\* geminiService.tsx:183-188   one round of the for-await loop of
\* streamSpeech.
SpeechChunk ==
    /\ component = "streamSpeech" /\ svcPc = "streaming"
    /\ pos < Len(remote)
    /\ LET chunk == remote[pos + 1]
       IN  calls' = IF Truthy(chunk) THEN Append(calls, chunk[1]) ELSE calls
    /\ pos' = pos + 1
    /\ UNCHANGED <<component, svcPc, remote, fullText, groundingSources, result,
                   codecVars, ttsVars, liveVars>>

\* geminiService.tsx:183-192   the stream is exhausted: streamSpeech resolves.
SpeechDone ==
    /\ component = "streamSpeech" /\ svcPc = "streaming"
    /\ pos = Len(remote)
    /\ svcPc' = "completed"
    /\ UNCHANGED <<component, remote, pos, fullText, groundingSources, calls, result,
                   codecVars, ttsVars, liveVars>>

\* geminiService.tsx:189-191   generateContentStream or the iteration
\* rejected: the catch block logs, and streamSpeech resolves.
SpeechFails ==
    /\ component = "streamSpeech" /\ svcPc = "streaming"
    /\ svcPc' = "caught"
    /\ UNCHANGED <<component, remote, pos, fullText, groundingSources, calls, result,
                   codecVars, ttsVars, liveVars>>

NextService ==
    \/ TextChunk \/ TextDone \/ TextFails
    \/ SpeechChunk \/ SpeechDone \/ SpeechFails

\* A call of generateStreamResponse or of streamSpeech, for every remote
\* stream of up to MaxChunks chunks; the components are idle.
ServiceInit ==
    /\ component \in {"generateStreamResponse", "streamSpeech"}
    /\ svcPc = "streaming"
    /\ remote \in StreamsOf(IF component = "generateStreamResponse"
                             THEN TextChunks ELSE SpeechChunks)
    /\ pos = 0
    /\ fullText = <<>>
    /\ groundingSources = <<>>
    /\ calls = <<>>
    /\ result = <<>>
    /\ now = 0
    /\ audioContext = "null"
    /\ isSpeaking = FALSE
    /\ isLoadingAudio = FALSE
    /\ nextStartTime = 0
    /\ sources = <<>>
    /\ nodes = <<>>
    /\ runs = <<>>
    /\ mounted = TRUE
    /\ lastNode = 0
    /\ apiKey = TRUE
    /\ isOpen = FALSE
    /\ status = "connecting"
    /\ isMuted = FALSE
    /\ mountedRef = TRUE
    /\ liveAudioContext = "null"
    /\ liveNow = 0
    /\ liveNextStartTime = 0
    /\ liveNodes = <<>>
    /\ conns = <<>>
    /\ modalMounted = TRUE
    /\ mediaStreamRef = 0
    /\ processorRef = 0
    /\ volumeLevel = 0
    /\ timers = 0
    /\ frames = 0
    /\ sent = 0
    /\ codecPc = "idle"
    /\ inputData = <<>>
    /\ base64Data = <<>>
    /\ float32Data = <<>>

ServiceSpec == ServiceInit /\ [][NextService]_vars

\* ============================================================ claims ======

\* A step in which scheduleChunk started a node / onmessage started a buffer.
Scheduled == Len(nodes') = Len(nodes) + 1
LiveScheduled == Len(liveNodes') = Len(liveNodes) + 1
NewNode == nodes'[Len(nodes')]
NewLiveNode == liveNodes'[Len(liveNodes')]
\* A step that runs stopAudio.
Stopped == ClickStop \/ Unmount
\* A step in which connect created a session's output context.
Connected == Len(conns') = Len(conns) + 1 /\ conns'[Len(conns')].pc = "media"

\* C1: within one streaming session with no stop in between, every fragment
\* starts no earlier than the fragment scheduled before it ended (and so no
\* earlier than it started), in the text-to-speech player and in the live
\* session alike.
C1_NoOverlapInSession ==
    [][ /\ (Scheduled /\ lastNode # 0) =>
            /\ NewNode.begin >= NodeEnd(nodes[lastNode])
            /\ NewNode.begin >= nodes[lastNode].begin
        /\ (LiveScheduled /\ Len(liveNodes) > 0) =>
            /\ NewLiveNode.begin >= liveNodes[Len(liveNodes)].begin + liveNodes[Len(liveNodes)].dur
            /\ NewLiveNode.begin >= liveNodes[Len(liveNodes)].begin ]_vars

\* Two fragments of one run, scheduled one after the other and both pending.
C1_Witness ==
    /\ Len(runs) = 1 /\ Len(nodes) = 2 /\ lastNode = 2
    /\ nodes[1].state = "scheduled" /\ nodes[2].state = "scheduled"
    /\ nodes[2].begin = NodeEnd(nodes[1])

\* Playback intervals [begin, begin + dur) of two nodes intersect.
Overlap(a, b) == a.begin < NodeEnd(b) /\ b.begin < NodeEnd(a)

\* C2: in every reachable state of the text-to-speech player no two
\* fragments that were started and not halted occupy overlapping playback
\* intervals on the output device.
C2_NoOverlap ==
    \A i, j \in DOMAIN nodes :
        (i < j /\ nodes[i].state # "halted" /\ nodes[j].state # "halted")
            => ~Overlap(nodes[i], nodes[j])

\* C3: the cursor never decreases, except that it is set to the device's
\* current time when a new streaming session begins.
C3_CursorOnlyLoweredAtSessionStart ==
    [][ /\ nextStartTime' < nextStartTime => (ClickSpeak /\ nextStartTime' = now')
        /\ liveNextStartTime' < liveNextStartTime => (Connected /\ liveNextStartTime' = liveNow')
      ]_vars

\* C3, amended: the cursor is lowered only by the start of a text-to-speech
\* run, which sets it to the device's current time, and by stopAudio (the
\* stop click and the unmount cleanup), which sets it to 0; the live
\* session's cursor is never lowered.
C3_CursorLoweredByStartOrStop ==
    [][ /\ nextStartTime' < nextStartTime =>
            \/ ClickSpeak /\ nextStartTime' = now'
            \/ Stopped /\ nextStartTime' = 0
        /\ liveNextStartTime' >= liveNextStartTime ]_vars

\* stopAudio has lowered a cursor that stood beyond the device's time, and a
\* later chunk has moved it up again.
C3_Witness ==
    /\ mounted /\ ~isSpeaking
    /\ \E i \in DOMAIN nodes : nodes[i].state = "halted" /\ NodeEnd(nodes[i]) > now + 1
    /\ \E i \in DOMAIN nodes : nodes[i].state = "scheduled"
    /\ nextStartTime = now + 1

\* C4: when a streaming session begins (handleSpeak starts a run, connect
\* opens a live session, also after an earlier session of the component)
\* the cursor equals the current time of that session's output device; the
\* completion of a fragment does not change the cursor.
C4_CursorAtSessionStart ==
    [][ /\ ClickSpeak => nextStartTime' = now'
        /\ Connected => liveNextStartTime' = liveNow'
        /\ (\E i \in DOMAIN nodes : OnEnded(i)) => nextStartTime' = nextStartTime ]_vars

\* C5: right after stopAudio every fragment that was pending has been
\* halted (none is left scheduled), the pending set is empty and the
\* cursor is 0.
C5_StopClearsEverything ==
    [][ Stopped =>
            /\ \A k \in DOMAIN sources : nodes'[sources[k]].state # "scheduled"
            /\ sources' = <<>>
            /\ nextStartTime' = 0 ]_vars

\* The stop click has halted two pending fragments.
C5_Witness ==
    /\ mounted /\ ~isSpeaking /\ sources = <<>> /\ nextStartTime = 0
    /\ Len(nodes) = 2
    /\ nodes[1].state = "halted" /\ nodes[2].state = "halted"

\* C6: stopAudio is idempotent and total: in every reachable state (never
\* started, loading, playing, stopped, holding fragments that have already
\* finished) a second consecutive call leaves the pending set, the cursor,
\* the speaking flag and every node as the first call left them.
C6_StopIdempotent == stopAudio(stopAudio(Player)) = stopAudio(Player)

\* The pending set holds a fragment that has finished and one still to play.
C6_Witness ==
    /\ \E k \in DOMAIN sources : nodes[sources[k]].state = "ended"
    /\ \E k \in DOMAIN sources : nodes[sources[k]].state = "scheduled"

\* C7: a fragment that arrives while the device time is not later than the
\* cursor starts exactly at the cursor, the end of the fragment before it;
\* three fragments of one tick (0.1 s) arriving at device time 0 with the
\* cursor at 0 start at ticks 0, 1 and 2.
C7_BackToBack ==
    /\ [][ /\ (Scheduled /\ now <= nextStartTime) => NewNode.begin = nextStartTime
           /\ (LiveScheduled /\ liveNow <= liveNextStartTime)
                 => NewLiveNode.begin = liveNextStartTime ]_vars
    /\ [](( /\ now = 0 /\ Len(runs) = 1 /\ Len(nodes) = 3
            /\ \A i \in 1..3 : nodes[i].dur = 1 /\ nodes[i].state = "scheduled" )
          => \A i \in 1..3 : nodes[i].begin = i - 1)
    /\ [](( /\ liveNow = 0 /\ Len(conns) = 1 /\ Len(liveNodes) = 3
            /\ \A i \in 1..3 : liveNodes[i].dur = 1 )
          => \A i \in 1..3 : liveNodes[i].begin = i - 1)

\* Three one-tick fragments have arrived at device time 0 in the live session.
C7_Witness ==
    /\ liveNow = 0 /\ Len(conns) = 1 /\ Len(liveNodes) = 3
    /\ \A i \in 1..3 : liveNodes[i].dur = 1 /\ liveNodes[i].begin = i - 1

\* C8: a fragment of duration d that arrives at a device time later than
\* the cursor starts at its arrival time, nothing else is started to fill
\* the gap, and the cursor becomes the arrival time plus d.
C8_Stall ==
    [][ /\ (\E r \in DOMAIN runs, d \in Durations : OnAudioChunk(r, d) /\ now > nextStartTime)
            => /\ Scheduled
               /\ NewNode.begin = now
               /\ nextStartTime' = now + NewNode.dur
               /\ sources' = Append(sources, Len(nodes'))
        /\ (\E k \in DOMAIN conns, d \in Durations :
                OnMessage(k, d) /\ mountedRef /\ liveAudioContext # "null"
                /\ liveNow > liveNextStartTime)
            => /\ LiveScheduled
               /\ NewLiveNode.begin = liveNow
               /\ liveNextStartTime' = liveNow + NewLiveNode.dur ]_vars

\* A fragment has played out, and the next one arrived a tick after its end.
C8_Witness ==
    /\ Len(runs) = 1 /\ Len(nodes) = 2
    /\ nodes[1].state = "ended" /\ nodes[2].state = "scheduled"
    /\ nodes[2].begin = NodeEnd(nodes[1]) + 1
    /\ nextStartTime = NodeEnd(nodes[2])

\* C9: fragments are scheduled in arrival order: a fragment of a stream never
\* starts earlier than the fragment the same stream delivered before it.
C9_ArrivalOrder ==
    [][ \A r \in DOMAIN runs :
          ((\E d \in Durations : OnAudioChunk(r, d)) /\ runs[r].activeSource # 0)
            => NewNode.begin >= nodes[runs[r].activeSource].begin ]_vars

\* C10: isSpeaking is cleared by the player exactly when the pending set
\* becomes empty after having been non-empty: it is not cleared while
\* fragments are pending (other than by stopAudio), and it is cleared once
\* the last pending fragment completes.
C10_DrainDetection ==
    [][ /\ (isSpeaking /\ ~isSpeaking' /\ ~Stopped) => sources' = <<>>
        /\ (sources # <<>> /\ sources' = <<>> /\ ~Stopped) => ~isSpeaking' ]_vars

\* C11: at every moment the pending set (sourcesRef.current) holds exactly
\* the fragments that were scheduled and have neither finished nor been
\* halted by stop.
C11_PendingSetExact ==
    \A i \in DOMAIN nodes :
        (\E k \in DOMAIN sources : sources[k] = i) <=> nodes[i].state = "scheduled"

\* |x - y| in units of 1/(x.den * y.den), and one quantization step
\* (1/32768) in the same units.
AbsDiff(x, y) ==
    LET d == x.num * y.den - y.num * x.den IN IF d >= 0 THEN d ELSE -d
Step(x, y) == (x.den * y.den) \div 32768
InUnitRange(x) == -x.den <= x.num /\ x.num <= x.den

\* C12: for every sample x in [-1, 1], decode(encode(x)) differs from x by
\* at most one quantization step 1/32768.
C12_ErrorWithinOneStep ==
    codecPc = "decoded" =>
        \A i \in DOMAIN inputData :
            (i \in DOMAIN float32Data /\ InUnitRange(inputData[i]))
                => AbsDiff(inputData[i], float32Data[i]) <= Step(inputData[i], float32Data[i])

\* C12, amended: for every sample x in [-1, 1], decode(encode(x)) differs
\* from x by less than two quantization steps, and by less than one step
\* when x is negative.
C12_ErrorBelowTwoSteps ==
    codecPc = "decoded" =>
        /\ Len(float32Data) = Len(inputData)
        /\ \A i \in DOMAIN inputData :
              InUnitRange(inputData[i]) =>
                /\ AbsDiff(inputData[i], float32Data[i]) < 2 * Step(inputData[i], float32Data[i])
                /\ inputData[i].num < 0 =>
                      AbsDiff(inputData[i], float32Data[i]) < Step(inputData[i], float32Data[i])

\* The frame <<0.9, -0.9, 1>> has been encoded and decoded: 0.9 comes back
\* as 29490/32768, more than one step below it.
C12_Witness ==
    /\ codecPc = "decoded"
    /\ inputData = <<Sample(9, 10), Sample(-9, 10), Sample(10, 10)>>
    /\ float32Data = <<Sample(29490, 32768), Sample(-29491, 32768), Sample(32767, 32768)>>

\* C13: for every sample sequence x (empty, or with values outside [-1, 1])
\* decode(encode(x)) has the length of x, and the encoding of the empty
\* sequence is empty.
C13_LengthPreserved ==
    /\ codecPc \in {"encoded", "decoded"} => (inputData = <<>> <=> base64Data = <<>>)
    /\ codecPc = "decoded" => Len(float32Data) = Len(inputData)

\* A frame of two samples, one of them outside [-1, 1], has made the round
\* trip; its encoding is padded.
C13_Witness ==
    /\ codecPc = "decoded"
    /\ Len(inputData) = 2 /\ Len(float32Data) = 2
    /\ ~InUnitRange(inputData[1])
    /\ base64Data[Len(base64Data)] = Pad

\* A step in which a chunk was handed to session.sendRealtimeInput.
Sent == sent' = sent + 1
\* A step that runs the effect's cleanup.
CleanedUp == SetIsOpen \/ ToggleMute \/ ModalUnmount \/ (isOpen /\ ~isOpen' /\ \E k \in ConnIds : OnClose(k))

\* C14: while the session is muted no capture frame is encoded or sent, and
\* muting leaves the capture loop running: the capture graph that processed
\* frames before the mute goes on processing them.
C14_MuteSkipsSendOnly ==
    [][ /\ (isMuted /\ \E k \in ConnIds, f \in Frames : OnAudioProcess(k, f)) => ~Sent
        /\ (ToggleMute /\ isMuted') =>
              \A k \in DOMAIN conns :
                  conns[k].capture = "running" => conns'[k].capture = "running" ]_vars

\* C15: for every capture frame processed while the modal is mounted, muted
\* or not, the loudness min(rms * 5, 1) of that frame is published as
\* volumeLevel.
C15_LoudnessAlwaysPublished ==
    [][ \A k \in ConnIds, f \in Frames :
            (OnAudioProcess(k, f) /\ modalMounted) => volumeLevel' = loudness(f) ]_vars

\* C16: volumeLevel is within [0, 1] (0..100 hundredths) in every reachable
\* state; a frame of zeros publishes 0 and a full-scale frame publishes 1.
C16_LevelWithinUnitRange ==
    /\ [](0 <= volumeLevel /\ volumeLevel <= 100)
    /\ [][ \A k \in ConnIds :
             /\ (OnAudioProcess(k, Silence) /\ Sent /\ modalMounted) => volumeLevel' = 0
             /\ (OnAudioProcess(k, FullScale) /\ Sent /\ modalMounted) => volumeLevel' = 100 ]_vars

\* A full-scale frame has been published while the reset timer of an
\* inbound fragment is pending.
C16_Witness ==
    /\ volumeLevel = 100 /\ sent = 1
    /\ Len(liveNodes) = 1 /\ timers = 1

\* No resource of any connect is held: no input track is live, no capture
\* graph runs and the output context is not running.
AllReleased ==
    /\ \A k \in DOMAIN conns : conns[k].stream # "live" /\ conns[k].capture # "running"
    /\ liveAudioContext # "running"

\* C17: when the live session leaves Connected, through onerror, through
\* the remote onclose or through explicit teardown (the modal is closed or
\* unmounted), the input tracks are stopped, the capture graph is
\* disconnected (so no frame reaches the remote session any more) and the
\* output context is closed.
C17_ReleasedOnLeavingConnected ==
    [][ ( /\ status = "connected"
          /\ \/ \E k \in ConnIds : OnError(k) /\ status' = "error"
             \/ \E k \in ConnIds : OnClose(k)
             \/ SetIsOpen /\ isOpen
             \/ ModalUnmount )
        => AllReleased' ]_vars

\* C18: no cleanup releases a resource that has already been released.
C18_ReleasedAtMostOnce ==
    [][ CleanedUp =>
          /\ <<"stream", "stopped">> \notin Releases
          /\ <<"graph", "disconnected">> \notin Releases
          /\ <<"context", "closed">> \notin Releases ]_vars

\* C19: the status becomes connected only from connecting and only in the
\* remote open callback; a transport error reported while the modal is
\* mounted makes it error; from error it does not become connected unless a
\* connect has set it to connecting in between.
C19_StatusMachine ==
    [][ /\ (status # "connected" /\ status' = "connected")
              => (status = "connecting" /\ \E k \in ConnIds : OnOpen(k))
        /\ (modalMounted /\ \E k \in ConnIds : OnError(k)) => status' = "error" ]_vars

\* Connect k failed before it acquired the input device.
NoDevice(k) == k \in DOMAIN conns /\ conns[k].pc = "failed" /\ conns[k].stream = "none"

\* C20: when getUserMedia fails, the status becomes error and the connect
\* ends there: it opens no remote session, builds no capture graph and sends
\* no frame, then or later.
C20_DeviceFailureEndsConnect ==
    /\ [][ \A k \in ConnIds :
             (ConnectFail(k) /\ conns[k].pc = "media")
                => /\ NoDevice(k)'
                   /\ modalMounted => status' = "error" ]_vars
    /\ [](\A k \in ConnIds : NoDevice(k) => conns[k].capture = "none")
    /\ [][ \A k \in ConnIds :
             NoDevice(k) =>
                /\ conns'[k] = conns[k]
                /\ ~ \E f \in Frames : OnAudioProcess(k, f) ]_vars

\* The input device was refused to the first connect, which failed; the
\* modal was closed and opened again, and the second connect has a session
\* whose capture graph has sent a frame.
C20_Witness ==
    /\ apiKey /\ Len(conns) = 2
    /\ NoDevice(1)
    /\ conns[2].pc = "session" /\ conns[2].capture = "running" /\ sent = 1

\* The durations of the chunks of Blobs that cannot be decoded, and of
\* those that can.
DroppedDurations == {Duration(b) : b \in Malformed}
PlayedDurations == {Duration(b) : b \in Blobs \ Malformed}

\* C21: a chunk that cannot be decoded (invalid base64 text, or an odd
\* number of bytes) makes decoding throw; the text-to-speech scheduler and
\* the live onmessage handler then leave the cursor, the nodes and the
\* pending set as they were and do not change isSpeaking or the status, and
\* every chunk that can be decoded is scheduled whatever came before it.
C21_MalformedChunkDropped ==
    /\ [](Malformed # {} /\ Chunks = DroppedDurations \cup PlayedDurations)
    /\ [][ /\ component = "MessageBubble" =>
                /\ \A d \in DroppedDurations, r \in RunIds :
                      OnAudioChunk(r, d) =>
                          UNCHANGED <<nextStartTime, sources, nodes, isSpeaking>>
                /\ \A d \in PlayedDurations, r \in RunIds :
                      OnAudioChunk(r, d) => Scheduled
           /\ component = "LiveVoiceModal" =>
                /\ \A k \in ConnIds :
                      OnMessageThrows(k) =>
                          UNCHANGED <<liveNextStartTime, liveNodes, status>>
                /\ \A d \in PlayedDurations, k \in ConnIds :
                      (mountedRef /\ liveAudioContext # "null" /\ OnMessage(k, d))
                          => LiveScheduled ]_vars

\* The player has scheduled a fragment and then dropped a chunk it could
\* not decode: the fragment is still pending, the cursor is at its end and
\* the player is still speaking and taking chunks.
C21_Witness ==
    /\ component = "MessageBubble" /\ isSpeaking
    /\ Len(runs) = 1 /\ runs[1].pc = "streaming" /\ runs[1].activeSource = 0
    /\ Len(nodes) = 1 /\ sources = <<1>> /\ nodes[1].state = "scheduled"
    /\ nextStartTime = NodeEnd(nodes[1])

\* A step that sets the status to error.
Errs == status # "error" /\ status' = "error"

\* C22: the status becomes error only in onerror or in the catch block of a
\* connect whose device acquisition or handshake failed; no fragment
\* arrival, however late, changes it.
C22_ErrorOnlyFromTransportOrDevice ==
    [][ Errs => \/ \E k \in ConnIds : OnError(k)
                \/ \E k \in ConnIds : ConnectFail(k) ]_vars

\* C22, amended: the status becomes error only in onerror or in the catch
\* block of connect, which runs when the API key is missing, when the input
\* device is refused and when the handshake fails; no fragment arrival,
\* however late, changes it.
C22_ErrorOnlyFromTransportOrConnect ==
    [][ /\ Errs => \/ \E k \in ConnIds : OnError(k)
                   \/ \E k \in ConnIds : ConnectFail(k)
                   \/ ~apiKey /\ (SetIsOpen \/ ToggleMute)
        /\ \A k \in ConnIds, d \in Chunks : OnMessage(k, d) => status' = status
        /\ LiveTick => status' = status ]_vars

\* The session is connected after an upstream stall: its second fragment
\* started later than the first one ended.
C22_Witness ==
    /\ status = "connected" /\ apiKey
    /\ Len(liveNodes) = 2
    /\ liveNodes[2].begin > liveNodes[1].begin + liveNodes[1].dur

\* C23: a capture frame is sent, and an inbound fragment is scheduled, only
\* while the status is connected.
C23_ActiveOnlyWhileConnected ==
    [][ (Sent \/ LiveScheduled) => status = "connected" ]_vars

\* The connects that have not ended: they await the input device or the
\* handshake, or their remote session is open.
Active == {k \in DOMAIN conns : conns[k].pc \in {"media", "handshake", "session"}}

\* C24: at most one connect is under way or in session at any time, and at
\* most one capture graph runs.
C24_OneSessionAtATime ==
    /\ Cardinality(Active) <= 1
    /\ Cardinality({k \in DOMAIN conns : conns[k].capture = "running"}) <= 1

\* C25: started from the same cursor and handed the same fragments at the
\* same device times, scheduleChunk and onmessage give every fragment the
\* same start time and leave the same cursor after each of them.
C25_SameSchedule ==
    /\ nextStartTime = liveNextStartTime
    /\ Len(nodes) = Len(liveNodes)
    /\ \A i \in DOMAIN nodes :
          nodes[i].begin = liveNodes[i].begin /\ nodes[i].dur = liveNodes[i].dur

\* Both schedulers have placed three fragments: the second after a stall,
\* the third right after the second.
C25_Witness ==
    /\ component = "PlaybackScheduler"
    /\ Len(nodes) = 3 /\ Len(liveNodes) = 3
    /\ liveNodes[2].begin > liveNodes[1].begin + liveNodes[1].dur
    /\ liveNodes[3].begin = liveNodes[2].begin + liveNodes[2].dur

\* C26: once stopAudio has run during a stream (the speaking flag is down
\* while handleSpeak is still awaiting streamSpeech), no chunk of that stream
\* is scheduled: the nodes and the pending set stay as they are.
C26_NothingScheduledAfterStop ==
    [][ \A r \in RunIds, d \in Chunks :
            (OnAudioChunk(r, d) /\ ~isSpeaking) => UNCHANGED <<nodes, sources>> ]_vars

\* C27: once every stream has ended and every fragment has finished (it
\* played out or was stopped), isSpeaking and isLoadingAudio are both false.
C27_IdleAfterDrain ==
    ( /\ component = "MessageBubble" /\ mounted
      /\ \A r \in DOMAIN runs : runs[r].pc = "done"
      /\ \A i \in DOMAIN nodes : nodes[i].state # "scheduled" )
    => (~isSpeaking /\ ~isLoadingAudio)

\* C28: after the modal has been unmounted and every connect has run to its
\* end (none awaits the input device or the handshake), no connect holds a
\* live input stream, an open remote session or a running capture graph.
C28_NothingHeldAfterTeardown ==
    ( /\ ~modalMounted
      /\ \A k \in DOMAIN conns : conns[k].pc \notin {"media", "handshake"} )
    => \A k \in DOMAIN conns :
          /\ conns[k].stream # "live"
          /\ conns[k].pc # "session"
          /\ conns[k].capture # "running"

IsPrefix(a, b) == Len(a) <= Len(b) /\ SubSeq(b, 1, Len(a)) = a

\* C29: each argument of onChunk begins with the argument of the call
\* before it; when the stream completes, what generateStreamResponse returns
\* is the argument of the last call, if there was one; when the remote call
\* fails, it returns the fixed message from its catch block.
C29_AccumulatedText ==
    /\ [](component = "generateStreamResponse" =>
            /\ \A i \in 1..(Len(calls) - 1) : IsPrefix(calls[i], calls[i + 1])
            /\ (svcPc = "completed" /\ calls # <<>>) => result = calls[Len(calls)]
            /\ svcPc = "caught" => result = Apology)
    /\ [][ TextFails => (svcPc' = "caught" /\ calls' = calls) ]_vars

\* The stream completed after two chunks that both carried text, the second
\* with a source: onChunk was called three times and the last argument,
\* which ends with the sources paragraph, was returned.
C29_Witness ==
    /\ component = "generateStreamResponse" /\ svcPc = "completed"
    /\ Len(remote) = 2 /\ remote[1].text # <<>> /\ remote[2].text # <<>>
    /\ Len(calls) = 3 /\ calls[1] # calls[2] /\ calls[2] # calls[3]
    /\ result = calls[3]

\* The data of the chunks that carry audio, in stream order.
RECURSIVE AudioOf(_)
AudioOf(stream) ==
    IF stream = <<>> THEN <<>>
    ELSE (IF Head(stream) # <<>> /\ Len(Head(stream)[1]) > 0 THEN <<Head(stream)[1]>> ELSE <<>>)
         \o AudioOf(Tail(stream))

\* C30: onAudioChunk has been called with the data of exactly the chunks
\* taken from the stream so far that carry audio, in stream order; a call
\* made is never taken back; when the stream fails, streamSpeech resolves
\* and delivers nothing further.
C30_OneCallPerAudioChunk ==
    /\ [](component = "streamSpeech" => calls = AudioOf(SubSeq(remote, 1, pos)))
    /\ [][ component = "streamSpeech" => IsPrefix(calls, calls') ]_vars
    /\ [][ SpeechFails => (svcPc' = "caught" /\ calls' = calls) ]_vars
    /\ [][ (component = "streamSpeech" /\ svcPc # "streaming") => calls' = calls ]_vars

\* The stream failed after a chunk with audio and before another one: one
\* call was made and streamSpeech has resolved.
C30_Witness ==
    /\ component = "streamSpeech" /\ svcPc = "caught"
    /\ Len(remote) = 2 /\ pos = 1
    /\ remote[1] # <<>> /\ remote[2] # <<>> /\ remote[2][1] # <<>>
    /\ Len(calls) = 1
====
